---- MODULE Spec2Model ----
(***************************************************************************)
(* Model of the OKS evaluation script oks_eval.py: the pure function       *)
(* calculate_oks, the keypoint conversion of extract_pose, and the batch   *)
(* loop over the ground-truth folder followed by the summary statistics.   *)
(*                                                                         *)
(* Floats are fixed-point integers: Scale stands for 1.0, NaN is a value   *)
(* outside 0..Scale.  Sigmas are kept in hundredths (26 stands for 0.26).  *)
(* File names are records [stem, ext]; the name is "<stem>.<ext>".         *)
(***************************************************************************)
EXTENDS Integers, Sequences, FiniteSets, TLC

VARIABLES
    poses,             \* files of ground_truth_folder
    generated_images,  \* files of generated_images_folder
    sigmas,            \* the module-level sigma table
    oks_scores,        \* the list oks_scores
    stdout,            \* the lines printed so far
    idx,               \* position of the for loop in sorted(os.listdir(...))
    pc,                \* "loop", "done", "aborted"; "call", "returned" for a lone call
    error,             \* the exception that ended the run or the call, or "None"
    gt_detected,       \* detected_map of the last ground-truth extraction
    pred_detected,     \* detected_map of the last generated-image extraction
    gt_keypoints,      \* loop variable gt_keypoints
    pred_keypoints,    \* loop variable pred_keypoints
    bbox_area,         \* loop variable bbox_area
    oks_score,         \* loop variable oks_score
    extract_calls      \* number of extractor invocations so far

vars == <<poses, generated_images, sigmas, oks_scores, stdout, idx, pc, error,
          gt_detected, pred_detected, gt_keypoints, pred_keypoints, bbox_area,
          oks_score, extract_calls>>

----------------------------------------------------------------------------
(* Bounds of the model *)

MaxStem == 2       \* base names are 1..MaxStem
MaxRefs == 2       \* the ground-truth folder holds at most MaxRefs files
MaxLen == 2        \* lone calls: keypoint arrays of 0..MaxLen points
MaxSigmaLen == 3   \* lone calls: sigma tables of 1..MaxSigmaLen entries
MaxArea == 1       \* lone calls: bbox_area in 0..MaxArea

----------------------------------------------------------------------------
(* Floating point *)

Scale == 1000
NaN == -1

\* np.finfo(float).eps is far below 1/Scale: area + eps is area when area > 0,
\* and a positive number below every representable quotient when area = 0.

\* Fixed-point (1 + x/4)^(-4) for x = num/den >= 0, standing for np.exp(-x):
\* Scale at x = 0, decreasing in x, never negative.
RECURSIVE ExpStep(_, _, _, _)
ExpStep(r, num, den, n) ==
    IF n = 0 THEN r
    ELSE ExpStep((r * (4 * den)) \div (4 * den + num), num, den, n - 1)

ExpNeg(num, den) == ExpStep(Scale, num, den, 4)

\* np.exp(-d / (2 * sigma**2 * (area + eps))) for one keypoint; sigma in hundredths.
\* sigma = 0 divides by zero: -d/0 is -inf (exp 0.0) for d > 0 and nan for d = 0.
Similarity(d, sigma, area) ==
    IF sigma = 0 THEN (IF d = 0 THEN NaN ELSE 0)
    ELSE IF area = 0 THEN (IF d = 0 THEN Scale ELSE 0)
    ELSE ExpNeg(d * 5000, sigma * sigma * area)

RECURSIVE SumSeq(_)
SumSeq(s) == IF Len(s) = 0 THEN 0 ELSE Head(s) + SumSeq(Tail(s))

HasNaN(s) == \E i \in 1..Len(s) : s[i] = NaN

\* np.mean: nan for an empty array or when an element is nan.
MeanZeroOnEmpty(s) ==
    IF Len(s) = 0 THEN 0
    ELSE IF HasNaN(s) THEN NaN
    ELSE SumSeq(s) \div Len(s)

Mean(s) ==
    IF Len(s) = 0 \/ HasNaN(s) THEN NaN
    ELSE SumSeq(s) \div Len(s)

----------------------------------------------------------------------------
(* calculate_oks *)

\* shape of np.array(list of [x, y]): (0,) for the empty list, else (n, 2)
Shape(a) == IF Len(a) = 0 THEN <<0>> ELSE <<Len(a), 2>>

Raise(e) == [exc |-> e]
Return(v) == [exc |-> "None", value |-> v]

\* NumPy broadcasting of two 1-D arrays of lengths k and s
Broadcastable(k, s) == k = s \/ k = 1 \/ s = 1
BroadcastLen(k, s) == IF k = s THEN k ELSE IF k = 1 THEN s ELSE k

SqDist(p, g) == (p[1] - g[1]) * (p[1] - g[1]) + (p[2] - g[2]) * (p[2] - g[2])

\* lines 26-32, after the assertion
OksBody(pred, gt, sigs, area) ==
    LET k == Len(pred)
        s == Len(sigs)
        dists == [i \in 1..k |-> SqDist(pred[i], gt[i])]
        n == BroadcastLen(k, s)
        scores == [i \in 1..n |->
                     Similarity(dists[IF k = 1 THEN 1 ELSE i],
                                sigs[IF s = 1 THEN 1 ELSE i], area)]
    IN  IF k = 0 THEN Raise("AxisError")
        ELSE IF ~Broadcastable(k, s) THEN Raise("ValueError")
        ELSE Return(Mean(scores))

\* pred - gt on shapes (k, 2) and (m, 2) broadcasts when k = 1 or m = 1
RECURSIVE Repeat(_, _)
Repeat(p, n) == IF n = 0 THEN <<>> ELSE <<p>> \o Repeat(p, n - 1)

calculate_oks_unasserted(pred, gt, sigs, area) ==
    IF Shape(pred) = Shape(gt) THEN OksBody(pred, gt, sigs, area)
    ELSE IF Len(pred) = 1 /\ Len(gt) > 0
         THEN OksBody(Repeat(pred[1], Len(gt)), gt, sigs, area)
    ELSE IF Len(gt) = 1 /\ Len(pred) > 0
         THEN OksBody(pred, Repeat(gt[1], Len(pred)), sigs, area)
    ELSE Raise("ValueError")

calculate_oks(pred, gt, sigs, area) ==
    IF Shape(pred) # Shape(gt) THEN Raise("AssertionError")
    ELSE OksBody(pred, gt, sigs, area)

----------------------------------------------------------------------------
(* extract_pose *)

None == <<>>

\* lines 46-50: the detected points in order, None entries dropped
extract_pose(detected_map) ==
    SelectSeq(detected_map, LAMBDA point : point # None)

----------------------------------------------------------------------------
(* Configuration *)

Sigmas == <<26, 25, 25, 35, 35, 79, 79, 72, 72, 62, 62, 107, 107, 87, 87, 89, 89>>

\* The sigma table as edited into line 57: the COCO preset, a table with a
\* zero sigma, and a table one entry short.
SigmaPresets == {Sigmas, [Sigmas EXCEPT ![1] = 0], SubSeq(Sigmas, 1, Len(Sigmas) - 1)}

Malformed(sigs, k) == Len(sigs) # k \/ \E i \in 1..Len(sigs) : sigs[i] <= 0

----------------------------------------------------------------------------
(* The external detector: what apply_openpose may hand back for an image *)

NumJoints == Len(Sigmas)

PoseA == [j \in 1..NumJoints |-> <<j % 4, j \div 4>>]
PoseB == [PoseA EXCEPT ![1] = <<2, 0>>]

Drop(pose, j) == [pose EXCEPT ![j] = None]
Only(pose, j) == [i \in 1..Len(pose) |-> IF i = j THEN pose[i] ELSE None]

DetectedMaps ==
    { PoseA, PoseB, Drop(PoseA, 1), Drop(PoseA, 2), Only(PoseA, 1), Only(PoseA, 2),
      [i \in 1..NumJoints |-> None] }

\* cv2.imread / HWC3 / apply_openpose either raise or deliver a detected_map
ExtractorOutcomes ==
    {[raised |-> TRUE, detected_map |-> <<>>]} \cup
    {[raised |-> FALSE, detected_map |-> m] : m \in DetectedMaps}

----------------------------------------------------------------------------
(* File names and folders *)

Exts == {"jpg", "png"}
Files == [stem : 1..MaxStem, ext : Exts]

ExtRank(e) == IF e = "jpg" THEN 1 ELSE 2

\* string order of "<stem>.<ext>"
NameLess(f, g) ==
    f.stem < g.stem \/ (f.stem = g.stem /\ ExtRank(f.ext) < ExtRank(g.ext))

\* sorted(os.listdir(folder))
RECURSIVE SortedListdir(_)
SortedListdir(S) ==
    IF S = {} THEN <<>>
    ELSE LET m == CHOOSE f \in S : \A g \in S \ {f} : NameLess(f, g)
         IN  <<m>> \o SortedListdir(S \ {m})

gt_files == SortedListdir(poses)

\* Path(gt_file).stem
Stem(f) == f.stem

\* os.path.join(generated_images_folder, f"{Path(gt_file).stem}.png")
ImageFileSameExt(gt_file) == [stem |-> Stem(gt_file), ext |-> gt_file.ext]

ImageFile(gt_file) == [stem |-> Stem(gt_file), ext |-> "png"]

\* os.path.exists(image_file)
Exists(image_file) == image_file \in generated_images

----------------------------------------------------------------------------
(* The batch loop *)

SeqMax(s) == CHOOSE v \in {s[i] : i \in 1..Len(s)} : \A i \in 1..Len(s) : s[i] <= v
SeqMin(s) == CHOOSE v \in {s[i] : i \in 1..Len(s)} : \A i \in 1..Len(s) : v <= s[i]
Column(kp, c) == [i \in 1..Len(kp) |-> kp[i][c]]

\* lines 76-77, for a non-empty keypoint array
BBoxArea(kp) ==
    (SeqMax(Column(kp, 1)) - SeqMin(Column(kp, 1))) *
    (SeqMax(Column(kp, 2)) - SeqMin(Column(kp, 2)))

NotFoundLine(f) == [kind |-> "not_found", gt_file |-> f]
OksLine(f, s) == [kind |-> "oks", gt_file |-> f, oks_score |-> s]
SummaryLine(avg, scores) == [kind |-> "summary", average |-> avg, scores |-> scores]

ListPrepend(list, x) == <<x>> \o list

\* list.append
ListAppend(list, x) == Append(list, x)

Init ==
    /\ poses \in {S \in SUBSET Files : Cardinality(S) <= MaxRefs}
    /\ generated_images \in SUBSET Files
    /\ sigmas = Sigmas
    /\ oks_scores = <<>>
    /\ stdout = <<>>
    /\ idx = 1
    /\ pc = "loop"
    /\ error = "None"
    /\ gt_detected = <<>>
    /\ pred_detected = <<>>
    /\ gt_keypoints = <<>>
    /\ pred_keypoints = <<>>
    /\ bbox_area = 0
    /\ oks_score = NaN
    /\ extract_calls = 0

\* an uncaught exception ends the script with a traceback
Abort(e) ==
    /\ pc' = "aborted"
    /\ error' = e
    /\ UNCHANGED <<oks_scores, stdout, idx>>

\* a skip that enters the score list as 0
NotFoundScoresZero ==
    /\ pc = "loop"
    /\ idx <= Len(gt_files)
    /\ ~Exists(ImageFile(gt_files[idx]))
    /\ stdout' = ListAppend(stdout, NotFoundLine(gt_files[idx]))
    /\ oks_scores' = ListAppend(oks_scores, 0)
    /\ idx' = idx + 1
    /\ UNCHANGED <<poses, generated_images, sigmas, pc, error,
                   gt_detected, pred_detected, gt_keypoints, pred_keypoints,
                   bbox_area, oks_score, extract_calls>>

\* lines 62-67: the candidate is missing
NotFound ==
    /\ pc = "loop"
    /\ idx <= Len(gt_files)
    /\ ~Exists(ImageFile(gt_files[idx]))
    /\ stdout' = ListAppend(stdout, NotFoundLine(gt_files[idx]))
    /\ idx' = idx + 1
    /\ UNCHANGED <<poses, generated_images, sigmas, oks_scores, pc, error,
                   gt_detected, pred_detected, gt_keypoints, pred_keypoints,
                   bbox_area, oks_score, extract_calls>>

\* lines 62-83: the candidate exists
Evaluate ==
    /\ pc = "loop"
    /\ idx <= Len(gt_files)
    /\ Exists(ImageFile(gt_files[idx]))
    /\ UNCHANGED <<poses, generated_images, sigmas>>
    /\ \E g \in ExtractorOutcomes :
         IF g.raised
         THEN /\ Abort("DetectionError")
              /\ extract_calls' = extract_calls + 1
              /\ UNCHANGED <<gt_detected, pred_detected, gt_keypoints,
                             pred_keypoints, bbox_area, oks_score>>
         ELSE
           /\ gt_detected' = g.detected_map
           /\ gt_keypoints' = extract_pose(g.detected_map)
           /\ extract_calls' = extract_calls + 2
           /\ \E p \in ExtractorOutcomes :
                IF p.raised
                THEN /\ Abort("DetectionError")
                     /\ UNCHANGED <<pred_detected, pred_keypoints, bbox_area, oks_score>>
                ELSE
                  /\ pred_detected' = p.detected_map
                  /\ pred_keypoints' = extract_pose(p.detected_map)
                  /\ IF Len(gt_keypoints') = 0
                     THEN \* gt_keypoints[:, 0] on an array of shape (0,)
                          /\ Abort("IndexError")
                          /\ UNCHANGED <<bbox_area, oks_score>>
                     ELSE
                       /\ bbox_area' = BBoxArea(gt_keypoints')
                       /\ LET r == calculate_oks(pred_keypoints', gt_keypoints',
                                                 sigmas, bbox_area')
                          IN  IF r.exc # "None"
                              THEN /\ Abort(r.exc)
                                   /\ UNCHANGED oks_score
                              ELSE /\ oks_score' = r.value
                                   /\ oks_scores' = ListAppend(oks_scores, r.value)
                                   /\ stdout' = ListAppend(stdout,
                                                   OksLine(gt_files[idx], r.value))
                                   /\ idx' = idx + 1
                                   /\ UNCHANGED <<pc, error>>

\* lines 85-88
Summary ==
    /\ pc = "loop"
    /\ idx > Len(gt_files)
    /\ stdout' = ListAppend(stdout, SummaryLine(Mean(oks_scores), oks_scores))
    /\ pc' = "done"
    /\ UNCHANGED <<poses, generated_images, sigmas, oks_scores, idx, error,
                   gt_detected, pred_detected, gt_keypoints, pred_keypoints,
                   bbox_area, oks_score, extract_calls>>

Next == NotFound \/ Evaluate \/ Summary

Spec == Init /\ [][Next]_vars

\* the same script with the sigma table of line 57 edited
InitConfig ==
    /\ poses \in {S \in SUBSET Files : Cardinality(S) <= MaxRefs}
    /\ generated_images \in SUBSET Files
    /\ sigmas \in SigmaPresets
    /\ oks_scores = <<>>
    /\ stdout = <<>>
    /\ idx = 1
    /\ pc = "loop"
    /\ error = "None"
    /\ gt_detected = <<>>
    /\ pred_detected = <<>>
    /\ gt_keypoints = <<>>
    /\ pred_keypoints = <<>>
    /\ bbox_area = 0
    /\ oks_score = NaN
    /\ extract_calls = 0

SpecConfig == InitConfig /\ [][Next]_vars

----------------------------------------------------------------------------
(* A lone call of calculate_oks on arbitrary arguments *)

Points == {<<0, 0>>, <<1, 0>>, <<0, 1>>}
SigmaValues == {25, 107}

RECURSIVE SeqsUpTo(_, _)
SeqsUpTo(S, n) ==
    IF n = 0 THEN {<<>>}
    ELSE LET shorter == SeqsUpTo(S, n - 1)
         IN  shorter \cup {Append(s, x) : s \in {t \in shorter : Len(t) = n - 1}, x \in S}

InitOks ==
    /\ pred_keypoints \in SeqsUpTo(Points, MaxLen)
    /\ gt_keypoints \in SeqsUpTo(Points, MaxLen)
    /\ sigmas \in {s \in SeqsUpTo(SigmaValues, MaxSigmaLen) : Len(s) > 0}
    /\ bbox_area \in 0..MaxArea
    /\ pc = "call"
    /\ error = "None"
    /\ oks_score = NaN
    /\ poses = {}
    /\ generated_images = {}
    /\ oks_scores = <<>>
    /\ stdout = <<>>
    /\ idx = 1
    /\ gt_detected = <<>>
    /\ pred_detected = <<>>
    /\ extract_calls = 0

\* oks_score = calculate_oks(pred_keypoints, gt_keypoints, sigmas, bbox_area)
CallOks ==
    /\ pc = "call"
    /\ LET r == calculate_oks(pred_keypoints, gt_keypoints, sigmas, bbox_area)
       IN  IF r.exc # "None"
           THEN error' = r.exc /\ UNCHANGED oks_score
           ELSE oks_score' = r.value /\ UNCHANGED error
    /\ pc' = "returned"
    /\ UNCHANGED <<poses, generated_images, sigmas, oks_scores, stdout, idx,
                   gt_detected, pred_detected, gt_keypoints, pred_keypoints,
                   bbox_area, extract_calls>>

NextOks == CallOks

SpecOks == InitOks /\ [][NextOks]_vars

----------------------------------------------------------------------------
(* Properties *)

Last(s) == s[Len(s)]
PairLines == SelectSeq(stdout, LAMBDA l : l.kind # "summary")
ScoredLines == SelectSeq(stdout, LAMBDA l : l.kind = "oks")
SkippedLines == SelectSeq(stdout, LAMBDA l : l.kind = "not_found")
Position(f) == CHOOSE i \in 1..Len(gt_files) : gt_files[i] = f

\* C1: a run that has ended holds exactly one result per reference entry, in
\* enumeration order, the result of an entry without candidate being a skip
\* with the missing-candidate marker.
C1_OneResultPerReference ==
    pc \in {"done", "aborted"}
        => /\ Len(PairLines) = Len(gt_files)
           /\ \A i \in 1..Len(PairLines) :
                 /\ PairLines[i].gt_file = gt_files[i]
                 /\ ~Exists(ImageFile(gt_files[i])) => PairLines[i].kind = "not_found"

\* C2: no DetectionError, empty reference keypoint set or keypoint-count
\* mismatch ends the run; every such pair is skipped and the run goes on.
C2_NoPerPairFailureAborts ==
    ~(pc = "aborted" /\ error \in {"DetectionError", "IndexError", "AssertionError"})

\* C3: a call of calculate_oks with predicted and reference sets of different
\* lengths raises the shape-mismatch assertion and assigns no score, whatever
\* the length of the sigma table.
C3_LengthMismatchRaises ==
    (pc = "returned" /\ Len(pred_keypoints) # Len(gt_keypoints))
        => (error = "AssertionError" /\ oks_score = NaN)

C3_Witness ==
    /\ pc = "returned"
    /\ Len(pred_keypoints) = 1
    /\ Len(gt_keypoints) = 2
    /\ Len(sigmas) = 2
    /\ error = "AssertionError"

\* C4: a call of calculate_oks with sets of equal length K and a sigma table
\* of another length raises an error and returns no score.
C4_SigmaLengthMismatchRaises ==
    (pc = "returned" /\ Len(pred_keypoints) = Len(gt_keypoints)
                     /\ Len(sigmas) # Len(pred_keypoints))
        => error # "None"

\* C5: a run that ends with no scored pair reports its mean OKS as NaN, a
\* value that is no score and in particular not 0.
C5_NoScoresMeanIsNaN ==
    (pc = "done" /\ oks_scores = <<>>)
        => /\ Last(stdout).kind = "summary"
           /\ Last(stdout).average = NaN
           /\ Last(stdout).average \notin 0..Scale

C5_Witness ==
    /\ pc = "done"
    /\ oks_scores = <<>>
    /\ Len(gt_files) = 2
    /\ Len(SkippedLines) = 2

\* C6: at every point of a run the results printed so far follow the order in
\* which their reference entries are enumerated, and the score list holds the
\* scores of the scored entries in that same order.
C6_ResultsInEnumerationOrder ==
    /\ \A i, j \in 1..Len(PairLines) :
          i < j => Position(PairLines[i].gt_file) < Position(PairLines[j].gt_file)
    /\ oks_scores = [i \in 1..Len(ScoredLines) |-> ScoredLines[i].oks_score]

C6_Witness ==
    /\ pc = "done"
    /\ Len(ScoredLines) = 2
    /\ oks_scores[1] # oks_scores[2]

C9_PairedByBaseNameAnyExtension ==
    \A i \in 1..Len(SkippedLines) :
        ~\E c \in generated_images : c.stem = SkippedLines[i].gt_file.stem

\* C9 (amended): a reference entry, whatever its own extension, is paired with
\* the candidate file named <base name>.png: it is evaluated when that file
\* exists and reported as a missing candidate when it does not, also when the
\* candidate folder holds its base name under another extension.
C9_PairedByBaseNamePng ==
    LET Png(f) == [stem |-> f.stem, ext |-> "png"]
    IN  /\ \A i \in 1..Len(SkippedLines) :
              Png(SkippedLines[i].gt_file) \notin generated_images
        /\ \A i \in 1..Len(ScoredLines) :
              Png(ScoredLines[i].gt_file) \in generated_images
        /\ pc = "aborted" => Png(gt_files[idx]) \in generated_images

C9_Witness ==
    /\ \E i \in 1..Len(ScoredLines) : ScoredLines[i].gt_file.ext = "jpg"
    /\ \E i \in 1..Len(SkippedLines) :
          [stem |-> SkippedLines[i].gt_file.stem, ext |-> "jpg"] \in generated_images

\* C10: whenever a pair is scored, position i of the predicted set and of the
\* reference set is joint i of what the detector delivered: no set that lost
\* a joint is scored.
C10_ScoredPairsAreAligned ==
    (stdout # <<>> /\ Last(stdout).kind = "oks")
        => /\ Len(gt_keypoints) = Len(gt_detected)
           /\ Len(pred_keypoints) = Len(pred_detected)
           /\ \A i \in 1..Len(gt_keypoints) :
                 gt_keypoints[i] = gt_detected[i] /\ pred_keypoints[i] = pred_detected[i]

====
